---- MODULE Spec2Model ----
(***************************************************************************)
(* TrafficPi: three traffic lights driven from ten mode switches and six   *)
(* bias (override) switches through pigpio alert and timer callbacks.      *)
(*                                                                         *)
(* A C++ int is modelled as a 32-bit two's complement word, written as the *)
(* set of the positions of its 1 bits (bit 0 is the least significant,     *)
(* bit 31 the sign): 0b100 is {2}, -1 is 0..31.  Bitwise or, and and not   *)
(* are union, intersection and complement; shifts move the positions.      *)
(* A left shift drops the bits moved past bit 31 and a right shift of a    *)
(* negative int copies the sign bit, as GCC defines both.                  *)
(*                                                                         *)
(* RotateDown and RotateUp read Sequence_Step, which the source declares   *)
(* nowhere; it is taken to be Sequence_Stage, the one global the comments  *)
(* of both functions name.  Each callback runs to completion before the    *)
(* next is delivered.                                                      *)
(***************************************************************************)
EXTENDS Integers, FiniteSets, Sequences, TLC

(***************************************************************************)
(* Bounds of the model.                                                    *)
(***************************************************************************)
\* callbacks (switch alerts and timer ticks) delivered after setup()
MaxEvents == 3
\* rotations applied in a row to one argument (SpecPure)
MaxOps == 3

(***************************************************************************)
(* Program constants.                                                      *)
(***************************************************************************)
slowSpeed == 5000
mediumSpeed == 2000
fastSpeed == 1000

redLight == 2
amberLight == 3
greenLight == 4
Lights == <<redLight, amberLight, greenLight>>

redOnBias == 17
redOffBias == 27
amberOnBias == 22
amberOffBias == 10
greenOnBias == 9
greenOffBias == 11
OnBias == <<redOnBias, amberOnBias, greenOnBias>>
OffBias == <<redOffBias, amberOffBias, greenOffBias>>

modeRand == 0
modeDownSlow == 5
modeDownMedium == 6
modeDownFast == 13
modeUpSlow == 19
modeUpMedium == 26
modeUpFast == 12
modeFlashSlow == 16
modeFlashMedium == 20
modeFlashFast == 21
Modes == <<modeRand,
           modeDownSlow, modeDownMedium, modeDownFast,
           modeUpSlow, modeUpMedium, modeUpFast,
           modeFlashSlow, modeFlashMedium, modeFlashFast>>

rotateDown == 0
rotateUp == 1
rotateNone == 2
\* DirectionFunction _directionFunction[] (indexed from 0 in the source)
_directionFunction == <<"RotateDown", "RotateUp", "RotateNone">>

\* the width of int; the source uses INT_BITS without defining it
INT_BITS == 32

Range(s) == {s[i] : i \in 1..Len(s)}
NULL == "NULL"

(***************************************************************************)
(* int arithmetic.                                                         *)
(***************************************************************************)
BitPos == 0..(INT_BITS - 1)
SignBit == INT_BITS - 1

\* the word of a literal 0b000 .. 0b111
Lit3(r, a, g) == (IF r = 1 THEN {2} ELSE {}) \cup (IF a = 1 THEN {1} ELSE {})
                 \cup (IF g = 1 THEN {0} ELSE {})
\* the int gpioRead returns for a pin level, 0 or 1
IntOfLevel(l) == IF l = 1 THEN {0} ELSE {}

BitOr(x, y) == x \cup y
BitAnd(x, y) == x \cap y
BitNot(x) == BitPos \ x

\* x << d for a count 0 <= d < INT_BITS; bits shifted out are lost
Shl(x, d) == {i + d : i \in x} \cap BitPos
\* x >> d on a signed int: the sign bit is copied in from the left
Sar(x, d) == ({i - d : i \in x} \cap BitPos)
             \cup (IF SignBit \in x THEN (INT_BITS - d)..SignBit ELSE {})

\* the value of the low k bits of x
RECURSIVE LowValue(_, _)
LowValue(x, k) == IF k = 0 THEN 0
                  ELSE LowValue(x, k - 1) + (IF (k - 1) \in x THEN 2 ^ (k - 1) ELSE 0)

(***************************************************************************)
(* Shift by a run-time count.  A count that is negative or >= INT_BITS is  *)
(* undefined behaviour; the two outcomes the target hardware gives are     *)
(* "mod32" (the count is taken modulo 32: x86, AArch64) and "byte" (the    *)
(* low byte of the count is used and 32 or more shifts everything out:     *)
(* ARM32, the Raspberry Pi's native instruction set).                      *)
(***************************************************************************)
ShiftHardware == {"mod32", "byte"}
ShlVar(x, c, hw) ==
    IF hw = "mod32" THEN Shl(x, LowValue(c, 5))
    ELSE IF LowValue(c, 8) >= INT_BITS THEN {} ELSE Shl(x, LowValue(c, 8))

(***************************************************************************)
(* State.                                                                  *)
(***************************************************************************)
VARIABLES
    gpio,            \* level of the bias and light pins: gpioRead returns it, gpioWrite sets it
    BIAS_ON_MASK,    \* int
    BIAS_OFF_MASK,   \* int
    Sequence_Stage,  \* int; the source also writes it Sequence_Step
    flash_step,      \* static int of RotateNone
    _speed,          \* static int of updateTimerMode
    _rotation,       \* static int of updateTimerMode
    timer0,          \* pigpio timer 0: NoTimer or [func, millis]
    pc,              \* "setup" before setup() has run, "run" after
    \* history, written by no handler's code
    modeHist,        \* the last two calls of updateTimerMode, <<pin, level>> each
    lastTick,        \* the last timer callback, if no other callback came after it
    onRead,          \* the levels the last updateOnBias assignment read, or NeverRead
    offRead,         \* the levels the last updateOffBias assignment read, or NeverRead
    flashHist,       \* flash_step before each of the last two RotateNone calls
    nEvents,         \* callbacks delivered so far
    scan,            \* the mode pins setup()'s scan found high, until the first callback
    \* a direction function run statement by statement (SpecThreads)
    tpc,             \* the statement it is at, "idle" when none is running
    tOutput,         \* its local int output
    snaps,           \* history: the <<BIAS_ON_MASK, BIAS_OFF_MASK>> pairs held during its run
    \* the rotation primitives applied to chosen arguments (SpecPure)
    arg, res, ops

progVars == <<gpio, BIAS_ON_MASK, BIAS_OFF_MASK, Sequence_Stage, flash_step,
              _speed, _rotation, timer0, pc>>
histVars == <<modeHist, lastTick, onRead, offRead, flashHist, nEvents, scan>>
pureVars == <<arg, res, ops>>
threadVars == <<tpc, tOutput, snaps>>
vars == <<progVars, histVars, pureVars, threadVars>>

BiasPins == Range(OnBias) \cup Range(OffBias)
Pins == BiasPins \cup Range(Lights)
NoTick == [func |-> NULL]
\* scan before setup() and after the first callback
NoScan == [done |-> FALSE, high |-> {}]
\* timer 0 with no function set
NoTimer == [func |-> NULL]
\* onRead / offRead before the first assignment to the mask
NeverRead == [i \in {0, 1, 2} |-> -1]
\* lamp i is bit i of a pattern: red = 2, amber = 1, green = 0
Lamps == {0, 1, 2}
OnBiasOf(i) == OnBias[3 - i]
OffBiasOf(i) == OffBias[3 - i]
LightOf(i) == Lights[3 - i]
Low3(x) == x \cap Lamps

(***************************************************************************)
(* rightRotate / leftRotate: (n >> d) | (n << (INT_BITS - d)) and          *)
(* (n << d) | (n >> (INT_BITS - d)) on int, with d = 1.                    *)
(***************************************************************************)
rightRotate(n) == BitOr(Sar(n, 1), Shl(n, INT_BITS - 1))
leftRotate(n) == BitOr(Shl(n, 1), Sar(n, INT_BITS - 1))

(***************************************************************************)
(* The external GPIO capability (pigpio).                                  *)
(***************************************************************************)
gpioRead(pin) == IntOfLevel(gpio[pin])
\* gpioSetTimerFunc(0, millis, f) on the slot's current value
gpioSetTimerFunc(slot, millis, f) ==
    IF f = NULL THEN NoTimer ELSE [func |-> f, millis |-> millis]

(***************************************************************************)
(* updateOnBias / updateOffBias: the value assigned to the mask.           *)
(***************************************************************************)
OnBiasValue(r, a, g, hw) == ShlVar(ShlVar(r, a, hw), g, hw)
\* OffBiasValue with only the shifted value complemented, not the shift counts
OffBiasValuePlainCounts(r, a, g, hw) == ShlVar(ShlVar(BitNot(r), a, hw), g, hw)
\* OffBiasValue assembled as a bit field, one bit a lamp, clear where the
\* lamp's OFF switch is closed
OffBiasValueBitfield(r, a, g, hw) ==
    BitOr(BitOr(Shl(BitAnd(BitNot(r), Lit3(0, 0, 1)), 2),
                Shl(BitAnd(BitNot(a), Lit3(0, 0, 1)), 1)),
          BitAnd(BitNot(g), Lit3(0, 0, 1)))
OffBiasValue(r, a, g, hw) ==
    ShlVar(ShlVar(BitNot(r), BitNot(a), hw), BitNot(g), hw)

updateOnBias(_level) ==
    IF _level \in {0, 1}
    THEN /\ \E hw \in ShiftHardware :
              BIAS_ON_MASK' = OnBiasValue(gpioRead(redOnBias)', gpioRead(amberOnBias)',
                                          gpioRead(greenOnBias)', hw)
         /\ onRead' = [i \in Lamps |-> gpio'[OnBiasOf(i)]]
    ELSE UNCHANGED <<BIAS_ON_MASK, onRead>>

\* updateOffBias with case 2 falling into the assignment of cases 0 and 1
updateOffBiasNoDefault(_level) ==
    /\ \E hw \in ShiftHardware :
          BIAS_OFF_MASK' = OffBiasValue(gpioRead(redOffBias)', gpioRead(amberOffBias)',
                                        gpioRead(greenOffBias)', hw)
    /\ offRead' = [i \in Lamps |-> gpio'[OffBiasOf(i)]]

updateOffBias(_level) ==
    IF _level \in {0, 1}
    THEN /\ \E hw \in ShiftHardware :
              BIAS_OFF_MASK' = OffBiasValue(gpioRead(redOffBias)', gpioRead(amberOffBias)',
                                            gpioRead(greenOffBias)', hw)
         /\ offRead' = [i \in Lamps |-> gpio'[OffBiasOf(i)]]
    ELSE UNCHANGED <<BIAS_OFF_MASK, offRead>>

(***************************************************************************)
(* updateLights: the levels written to the three light pins.               *)
(***************************************************************************)
\* the uint8_t parameter keeps the low 8 bits of the int passed
ToUint8(x) == x \cap (0..7)
\* updateLights with the masked bits written unshifted
updateLightsNoShift(_outputRequest) ==
    LET req == BitAnd(ToUint8(_outputRequest), Lit3(1, 1, 1))
    IN  [p \in Range(Lights) |->
            CASE p = redLight   -> LowValue(BitAnd(req, Lit3(1, 0, 0)), 8)
              [] p = amberLight -> LowValue(BitAnd(req, Lit3(0, 1, 0)), 8)
              [] p = greenLight -> LowValue(BitAnd(req, Lit3(0, 0, 1)), 8)]

updateLights(_outputRequest) ==
    LET req == BitAnd(ToUint8(_outputRequest), Lit3(1, 1, 1))
    IN  [p \in Range(Lights) |->
            CASE p = redLight   -> LowValue(Sar(BitAnd(req, Lit3(1, 0, 0)), 2), 8)
              [] p = amberLight -> LowValue(Sar(BitAnd(req, Lit3(0, 1, 0)), 1), 8)
              [] p = greenLight -> LowValue(BitAnd(req, Lit3(0, 0, 1)), 8)]

\* ApplyBias with the OFF bias applied before the ON bias
ApplyBiasOffFirst(output, on, off) == BitOr(BitAnd(output, off), on)
\* output = output | BIAS_ON_MASK; output = output & BIAS_OFF_MASK
ApplyBias(output, on, off) == BitAnd(BitOr(output, on), off)

WriteLights(output) ==
    gpio' = [p \in Pins |-> IF p \in Range(Lights) THEN updateLights(output)[p] ELSE gpio[p]]

(***************************************************************************)
(* The three direction functions, run by the timer.                        *)
(***************************************************************************)
\* FlashStep with the logical not, !flash_step, for the bitwise one
FlashStepLogicalNot(f) == IF f = {} THEN {0} ELSE {}
\* flash_step = ~flash_step
FlashStep(f) == BitNot(f)

\* run counts the calls of f in a row, with no other callback between them,
\* and start is the state the first of them began from
LogTick(f, before, next) ==
    lastTick' = [func |-> f, millis |-> timer0.millis, before |-> before,
                 next |-> next, on |-> BIAS_ON_MASK, off |-> BIAS_OFF_MASK,
                 run |-> IF lastTick.func = f THEN lastTick.run + 1 ELSE 1,
                 start |-> IF lastTick.func = f THEN lastTick.start ELSE before]

RotateDown ==
    /\ Sequence_Stage' = rightRotate(Sequence_Stage)
    /\ WriteLights(ApplyBias(Sequence_Stage', BIAS_ON_MASK, BIAS_OFF_MASK))
    /\ LogTick("RotateDown", Sequence_Stage, Sequence_Stage')
    /\ UNCHANGED <<flash_step, flashHist>>

RotateUp ==
    /\ Sequence_Stage' = leftRotate(Sequence_Stage)
    /\ WriteLights(ApplyBias(Sequence_Stage', BIAS_ON_MASK, BIAS_OFF_MASK))
    /\ LogTick("RotateUp", Sequence_Stage, Sequence_Stage')
    /\ UNCHANGED <<flash_step, flashHist>>

\* RotateNone keeping its phase in the global Sequence_Stage, not in a static
\* of its own
RotateNoneOnStage ==
    /\ Sequence_Stage' = FlashStep(Sequence_Stage)
    /\ WriteLights(ApplyBias(Sequence_Stage', BIAS_ON_MASK, BIAS_OFF_MASK))
    /\ LogTick("RotateNone", Sequence_Stage, Sequence_Stage')
    /\ flashHist' = IF flashHist = <<>> THEN <<Sequence_Stage>>
                    ELSE <<flashHist[Len(flashHist)], Sequence_Stage>>
    /\ UNCHANGED flash_step

RotateNone ==
    /\ flash_step' = FlashStep(flash_step)
    /\ WriteLights(ApplyBias(flash_step', BIAS_ON_MASK, BIAS_OFF_MASK))
    /\ LogTick("RotateNone", flash_step, flash_step')
    /\ flashHist' = IF flashHist = <<>> THEN <<flash_step>>
                    ELSE <<flashHist[Len(flashHist)], flash_step>>
    /\ UNCHANGED Sequence_Stage

(***************************************************************************)
(* updateTimerMode.                                                        *)
(***************************************************************************)
\* SwitchSpeed with the break of case modeRand missing: it falls through to
\* case modeDownSlow
SwitchSpeedFallThrough(_pin, cur) ==
    CASE _pin \in {modeRand, modeDownSlow, modeUpSlow, modeFlashSlow} -> slowSpeed
      [] _pin \in {modeDownMedium, modeUpMedium, modeFlashMedium}     -> mediumSpeed
      [] _pin \in {modeDownFast, modeUpFast, modeFlashFast}           -> fastSpeed
      [] OTHER -> cur
\* the switch on _pin: the value _speed holds after it
SwitchSpeed(_pin, cur) ==
    CASE _pin \in {modeDownSlow, modeUpSlow, modeFlashSlow}       -> slowSpeed
      [] _pin \in {modeDownMedium, modeUpMedium, modeFlashMedium} -> mediumSpeed
      [] _pin \in {modeDownFast, modeUpFast, modeFlashFast}       -> fastSpeed
      [] OTHER -> cur
\* the switch on _pin: the value _rotation holds after it
SwitchRotation(_pin, cur) ==
    CASE _pin \in {modeDownSlow, modeDownMedium, modeDownFast}    -> rotateDown
      [] _pin \in {modeUpSlow, modeUpMedium, modeUpFast}          -> rotateUp
      [] _pin \in {modeFlashSlow, modeFlashMedium, modeFlashFast} -> rotateNone
      [] OTHER -> cur

\* TimerAfter without the stop: a timer that is running keeps its interval and
\* function
TimerAfterNoStop(_level, speed, rotation) ==
    IF _level # 1 THEN timer0
    ELSE IF timer0.func # NULL THEN timer0
    ELSE [func |-> _directionFunction[rotation + 1], millis |-> speed]
\* timer 0 once the handler has returned: stopped first, then, for _level = 1,
\* started with the new conditions
TimerAfter(_level, speed, rotation) ==
    LET stopped == gpioSetTimerFunc(timer0, 10, NULL)
    IN  IF _level # 1 THEN stopped
        ELSE gpioSetTimerFunc(stopped, speed, _directionFunction[rotation + 1])

updateTimerMode(_pin, _level) ==
    /\ _speed' = IF _level # 1 THEN _speed ELSE SwitchSpeed(_pin, _speed)
    /\ _rotation' = IF _level # 1 THEN _rotation ELSE SwitchRotation(_pin, _rotation)
    /\ timer0' = TimerAfter(_level, _speed', _rotation')
    /\ modeHist' = IF modeHist = <<>> THEN << <<_pin, _level>> >>
                   ELSE <<modeHist[Len(modeHist)], <<_pin, _level>> >>

(***************************************************************************)
(* setup(): the scan of the mode pins that sets the current mode.  high is *)
(* the set of mode pins gpioRead finds high during the scan.               *)
(***************************************************************************)
\* FirstActive with the break of line 320 missing: the loop goes on and the
\* last pin that reads high is the one in force
FirstActiveNoBreak(high) ==
    IF \E k \in 1..Len(Modes) : Modes[k] \in high
    THEN CHOOSE k \in 1..Len(Modes) :
             /\ Modes[k] \in high
             /\ \A j \in (k + 1)..Len(Modes) : Modes[j] \notin high
    ELSE 0

\* the index in Modes of the first pin that reads high, 0 if none does
FirstActive(high) ==
    IF \E k \in 1..Len(Modes) : Modes[k] \in high
    THEN CHOOSE k \in 1..Len(Modes) :
             /\ Modes[k] \in high
             /\ \A j \in 1..(k - 1) : Modes[j] \notin high
    ELSE 0

Setup ==
    /\ pc = "setup"
    /\ pc' = "run"
    /\ \E high \in SUBSET Range(Modes) :
          /\ IF FirstActive(high) # 0
             THEN updateTimerMode(Modes[FirstActive(high)], 1)
             ELSE UNCHANGED <<_speed, _rotation, timer0, modeHist>>
          /\ scan' = [done |-> TRUE, high |-> high]
    /\ UNCHANGED <<gpio, BIAS_ON_MASK, BIAS_OFF_MASK, Sequence_Stage, flash_step>>
    /\ UNCHANGED <<lastTick, onRead, offRead, flashHist, nEvents>>
    /\ UNCHANGED pureVars
    /\ UNCHANGED threadVars

(***************************************************************************)
(* Callbacks delivered by pigpio, each run to completion.                  *)
(***************************************************************************)
Flip(pin) == [gpio EXCEPT ![pin] = 1 - gpio[pin]]
Delivered == /\ pc = "run"
             /\ nEvents < MaxEvents
             /\ nEvents' = nEvents + 1
             /\ scan' = NoScan

\* the alert of a mode switch: updateTimerMode(pin, level, tick), level 0 or 1
\* for an edge and 2 for a watchdog timeout
ModeEvent(pin, level) ==
    /\ Delivered
    /\ updateTimerMode(pin, level)
    /\ lastTick' = NoTick
    /\ UNCHANGED <<gpio, BIAS_ON_MASK, BIAS_OFF_MASK, Sequence_Stage, flash_step, pc>>
    /\ UNCHANGED <<onRead, offRead, flashHist>>
    /\ UNCHANGED pureVars
    /\ UNCHANGED threadVars

\* a mask pair written while a direction function is running joins its history
SnapMasks ==
    /\ UNCHANGED <<tpc, tOutput>>
    /\ snaps' = IF tpc = "idle" THEN snaps
                ELSE snaps \cup {<<BIAS_ON_MASK', BIAS_OFF_MASK'>>}

\* OnBiasEvent with the lights refreshed from the handler, at once, with the
\* new ON mask
OnBiasEventRefresh(pin, edge) ==
    /\ Delivered
    /\ gpio' = LET g == IF edge THEN Flip(pin) ELSE gpio
                   on == IF edge
                         THEN OnBiasValue(IntOfLevel(g[redOnBias]), IntOfLevel(g[amberOnBias]),
                                          IntOfLevel(g[greenOnBias]), "mod32")
                         ELSE BIAS_ON_MASK
                   lit == updateLights(ApplyBias(Sequence_Stage, on, BIAS_OFF_MASK))
               IN  [p \in Pins |-> IF p \in Range(Lights) THEN lit[p] ELSE g[p]]
    /\ updateOnBias(IF edge THEN gpio'[pin] ELSE 2)
    /\ lastTick' = NoTick
    /\ UNCHANGED <<BIAS_OFF_MASK, Sequence_Stage, flash_step, _speed, _rotation, timer0, pc>>
    /\ UNCHANGED <<modeHist, offRead, flashHist>>
    /\ UNCHANGED pureVars
    /\ SnapMasks

\* the alert of an ON bias switch: it changes level (edge) or times out (level 2)
OnBiasEvent(pin, edge) ==
    /\ Delivered
    /\ gpio' = IF edge THEN Flip(pin) ELSE gpio
    /\ updateOnBias(IF edge THEN gpio'[pin] ELSE 2)
    /\ lastTick' = NoTick
    /\ UNCHANGED <<BIAS_OFF_MASK, Sequence_Stage, flash_step, _speed, _rotation, timer0, pc>>
    /\ UNCHANGED <<modeHist, offRead, flashHist>>
    /\ UNCHANGED pureVars
    /\ SnapMasks

\* the alert of an OFF bias switch: it changes level (edge) or times out (level 2)
OffBiasEvent(pin, edge) ==
    /\ Delivered
    /\ gpio' = IF edge THEN Flip(pin) ELSE gpio
    /\ updateOffBias(IF edge THEN gpio'[pin] ELSE 2)
    /\ lastTick' = NoTick
    /\ UNCHANGED <<BIAS_ON_MASK, Sequence_Stage, flash_step, _speed, _rotation, timer0, pc>>
    /\ UNCHANGED <<modeHist, onRead, flashHist>>
    /\ UNCHANGED pureVars
    /\ SnapMasks

\* timer 0 expires: its function runs
Tick ==
    /\ Delivered
    /\ timer0.func # NULL
    /\ \/ timer0.func = "RotateDown" /\ RotateDown
       \/ timer0.func = "RotateUp" /\ RotateUp
       \/ timer0.func = "RotateNone" /\ RotateNone
    /\ UNCHANGED <<BIAS_ON_MASK, BIAS_OFF_MASK, _speed, _rotation, timer0, pc>>
    /\ UNCHANGED <<modeHist, onRead, offRead>>
    /\ UNCHANGED pureVars
    /\ UNCHANGED threadVars

(***************************************************************************)
(* The program.                                                            *)
(***************************************************************************)
PureIdle == arg = {} /\ res = {} /\ ops = <<>>

\* the globals and statics as initialised; at power-on the lights are off and
\* the bias switches open
InitProgram ==
    /\ BIAS_ON_MASK = Lit3(0, 0, 0)
    /\ BIAS_OFF_MASK = Lit3(1, 1, 1)
    /\ Sequence_Stage = Lit3(1, 0, 0)
    /\ flash_step = Lit3(1, 1, 1)
    /\ _speed = mediumSpeed
    /\ _rotation = rotateDown
    /\ timer0 = NoTimer
    /\ gpio = [p \in Pins |-> 0]
    /\ pc = "setup"
    /\ modeHist = <<>> /\ lastTick = NoTick /\ onRead = NeverRead /\ offRead = NeverRead
    /\ flashHist = <<>> /\ nEvents = 0 /\ scan = NoScan
    /\ tpc = "idle" /\ tOutput = {} /\ snaps = {}

Init == InitProgram /\ PureIdle

Next ==
    \/ Setup
    \/ \E pin \in Range(Modes), level \in {0, 1, 2} : ModeEvent(pin, level)
    \/ \E pin \in Range(OnBias), edge \in BOOLEAN : OnBiasEvent(pin, edge)
    \/ \E pin \in Range(OffBias), edge \in BOOLEAN : OffBiasEvent(pin, edge)
    \/ Tick

Spec == Init /\ [][Next]_vars

(***************************************************************************)
(* updateLights on its own: called, time after time, with any request: an  *)
(* int whose low byte is any uint8_t value and whose higher bits are clear *)
(* or set.                                                                 *)
(***************************************************************************)
Requests == {low \cup high : low \in SUBSET (0..7), high \in {{}, {8, SignBit}}}

ApplyUpdateLights ==
    /\ Len(ops) < MaxOps
    /\ \E req \in Requests :
          /\ arg' = req
          /\ WriteLights(req)
    /\ ops' = Append(ops, "updateLights")
    /\ UNCHANGED <<BIAS_ON_MASK, BIAS_OFF_MASK, Sequence_Stage, flash_step,
                   _speed, _rotation, timer0, pc>>
    /\ UNCHANGED <<res, histVars, threadVars>>

SpecLights == Init /\ [][ApplyUpdateLights]_vars

(***************************************************************************)
(* The direction functions run on the timer's thread while the bias        *)
(* alerts run on the alert thread, with no lock in the source: a           *)
(* direction function is taken statement by statement and a bias alert     *)
(* may run between any two of them.  A bias alert is one step (one store   *)
(* to its mask).  The mode dial is left alone after setup().               *)
(***************************************************************************)
\* lines 186-187, 198-199, 210-211: the step and the copy into output
DirectionStep ==
    /\ Delivered
    /\ timer0.func # NULL
    /\ tpc = "idle"
    /\ \/ /\ timer0.func = "RotateDown"
          /\ Sequence_Stage' = rightRotate(Sequence_Stage)
          /\ tOutput' = Sequence_Stage'
          /\ UNCHANGED <<flash_step, flashHist>>
       \/ /\ timer0.func = "RotateUp"
          /\ Sequence_Stage' = leftRotate(Sequence_Stage)
          /\ tOutput' = Sequence_Stage'
          /\ UNCHANGED <<flash_step, flashHist>>
       \/ /\ timer0.func = "RotateNone"
          /\ flash_step' = FlashStep(flash_step)
          /\ tOutput' = flash_step'
          /\ flashHist' = IF flashHist = <<>> THEN <<flash_step>>
                          ELSE <<flashHist[Len(flashHist)], flash_step>>
          /\ UNCHANGED Sequence_Stage
    /\ tpc' = "or"
    /\ snaps' = {<<BIAS_ON_MASK, BIAS_OFF_MASK>>}
    /\ lastTick' = NoTick
    /\ UNCHANGED <<gpio, BIAS_ON_MASK, BIAS_OFF_MASK, _speed, _rotation, timer0, pc>>
    /\ UNCHANGED <<modeHist, onRead, offRead>>
    /\ UNCHANGED pureVars

\* lines 188, 200, 212: output = output | BIAS_ON_MASK
DirectionOrOn ==
    /\ tpc = "or"
    /\ tOutput' = BitOr(tOutput, BIAS_ON_MASK)
    /\ tpc' = "and"
    /\ UNCHANGED <<progVars, histVars, pureVars, snaps>>

\* lines 189, 201, 213: output = output & BIAS_OFF_MASK
DirectionAndOff ==
    /\ tpc = "and"
    /\ tOutput' = BitAnd(tOutput, BIAS_OFF_MASK)
    /\ tpc' = "red"
    /\ UNCHANGED <<progVars, histVars, pureVars, snaps>>

\* lines 173-175: the three gpioWrite calls of updateLights(output), in turn
LightWrite(at, pin, then) ==
    /\ tpc = at
    /\ gpio' = [gpio EXCEPT ![pin] = updateLights(tOutput)[pin]]
    /\ tpc' = then
    /\ UNCHANGED <<BIAS_ON_MASK, BIAS_OFF_MASK, Sequence_Stage, flash_step,
                   _speed, _rotation, timer0, pc>>
    /\ UNCHANGED <<histVars, pureVars, tOutput, snaps>>

ThreadsNext ==
    \/ Setup
    \/ \E pin \in Range(OnBias), edge \in BOOLEAN : OnBiasEvent(pin, edge)
    \/ \E pin \in Range(OffBias), edge \in BOOLEAN : OffBiasEvent(pin, edge)
    \/ DirectionStep
    \/ DirectionOrOn
    \/ DirectionAndOff
    \/ LightWrite("red", redLight, "amber")
    \/ LightWrite("amber", amberLight, "green")
    \/ LightWrite("green", greenLight, "idle")

SpecThreads == Init /\ [][ThreadsNext]_vars

(***************************************************************************)
(* The rotation primitives on their own: rightRotate and leftRotate        *)
(* applied, in any order, to each 3-bit argument.                          *)
(***************************************************************************)
ThreeBit == {Lit3(r, a, g) : r \in {0, 1}, a \in {0, 1}, g \in {0, 1}}

PureInit == InitProgram /\ arg \in ThreeBit /\ res = arg /\ ops = <<>>

ApplyRightRotate ==
    /\ Len(ops) < MaxOps
    /\ res' = rightRotate(res)
    /\ ops' = Append(ops, "rightRotate")
    /\ UNCHANGED <<arg, progVars, histVars, threadVars>>

ApplyLeftRotate ==
    /\ Len(ops) < MaxOps
    /\ res' = leftRotate(res)
    /\ ops' = Append(ops, "leftRotate")
    /\ UNCHANGED <<arg, progVars, histVars, threadVars>>

PureNext == ApplyRightRotate \/ ApplyLeftRotate

SpecPure == PureInit /\ [][PureNext]_vars

(***************************************************************************)
(* What the properties below speak of.                                     *)
(***************************************************************************)
\* the pattern the three light pins hold
LightsPattern == {i \in Lamps : gpio[LightOf(i)] = 1}
\* a timer callback was the last callback
Ticked == lastTick.func # NULL
\* the nine speed/direction modes and what each selects
NineModes == Range(Modes) \ {modeRand}
ModeTable(pin) ==
    CASE pin = modeDownSlow    -> [func |-> "RotateDown", millis |-> 5000]
      [] pin = modeDownMedium  -> [func |-> "RotateDown", millis |-> 2000]
      [] pin = modeDownFast    -> [func |-> "RotateDown", millis |-> 1000]
      [] pin = modeUpSlow      -> [func |-> "RotateUp", millis |-> 5000]
      [] pin = modeUpMedium    -> [func |-> "RotateUp", millis |-> 2000]
      [] pin = modeUpFast      -> [func |-> "RotateUp", millis |-> 1000]
      [] pin = modeFlashSlow   -> [func |-> "RotateNone", millis |-> 5000]
      [] pin = modeFlashMedium -> [func |-> "RotateNone", millis |-> 2000]
      [] pin = modeFlashFast   -> [func |-> "RotateNone", millis |-> 1000]
\* circular rotation of the 3-bit lamp field by one position
Rot3Down(p) == {i - 1 : i \in p \ {0}} \cup (IF 0 \in p THEN {2} ELSE {})
Rot3Up(p) == {i + 1 : i \in p \ {2}} \cup (IF 2 \in p THEN {0} ELSE {})
\* the last call of updateTimerMode and the one before it
LastMode == modeHist[Len(modeHist)]
PrevMode == modeHist[Len(modeHist) - 1]

(***************************************************************************)
(* C1: after two successive activations (level 1) of nine-mode pins A then *)
(* B, timer 0 is armed with B's interval and step function, and a tick     *)
(* that comes after the second activation runs B's function at B's         *)
(* interval, never A's.                                                    *)
(***************************************************************************)
TwoActivations ==
    /\ Len(modeHist) = 2
    /\ PrevMode[2] = 1 /\ PrevMode[1] \in NineModes
    /\ LastMode[2] = 1 /\ LastMode[1] \in NineModes

C1_SecondSelectionArmed ==
    TwoActivations =>
        /\ timer0 = ModeTable(LastMode[1])
        /\ Ticked => /\ lastTick.func = ModeTable(LastMode[1]).func
                     /\ lastTick.millis = ModeTable(LastMode[1]).millis

C1_Witness ==
    /\ TwoActivations
    /\ PrevMode[1] = modeDownSlow /\ LastMode[1] = modeFlashFast
    /\ Ticked /\ lastTick.func = "RotateNone" /\ lastTick.millis = 1000

(***************************************************************************)
(* C2: a mode-switch callback with level 0 or level 2 leaves the armed     *)
(* speed, the armed rotation and the running/stopped status of timer 0 as  *)
(* they were.                                                              *)
(***************************************************************************)
C2_NonActivationIsNoOp ==
    [][(\E pin \in Range(Modes), level \in {0, 2} : ModeEvent(pin, level))
          => /\ timer0' = timer0
             /\ _speed' = _speed
             /\ _rotation' = _rotation]_vars

(***************************************************************************)
(* C3: force-off beats force-on: if lamp L's force-on and force-off        *)
(* switches both read active when the masks were last updated, the tick    *)
(* that follows writes 0 to L's light.                                     *)
(***************************************************************************)
C3_ForceOffBeatsForceOn ==
    \A i \in Lamps :
        (Ticked /\ onRead[i] = 1 /\ offRead[i] = 1) => gpio[LightOf(i)] = 0

\* the sequence lights the lamp and both its switches are active
C3_Witness ==
    \E i \in Lamps :
        /\ Ticked /\ onRead[i] = 1 /\ offRead[i] = 1
        /\ i \in lastTick.next
        /\ gpio[LightOf(i)] = 0

(***************************************************************************)
(* C4: forceOnMask bit i equals the level of lamp i's force-on switch,     *)
(* forceOffMask bit i is 0 exactly when lamp i's force-off switch is       *)
(* active, and both masks stay within 0..7.                                *)
(***************************************************************************)
C4_MasksMirrorSwitches ==
    /\ BIAS_ON_MASK = {i \in Lamps : gpio[OnBiasOf(i)] = 1}
    /\ BIAS_OFF_MASK = {i \in Lamps : gpio[OffBiasOf(i)] = 0}

(***************************************************************************)
(* C5: starting from 0b100, after any RotateDown and RotateUp ticks the    *)
(* low three bits of the sequence state have exactly one bit set.          *)
(***************************************************************************)
C5_OneLampLit == Cardinality(Low3(Sequence_Stage)) = 1

(***************************************************************************)
(* C6: rotation round-trips on the 3-bit lamp field: for every 3-bit p the *)
(* 3-bit pattern of rotateDown(rotateUp(p)) is p and that of               *)
(* rotateUp(rotateDown(p)) is p.                                           *)
(***************************************************************************)
C6_RotationRoundTrip ==
    /\ ops = <<"leftRotate", "rightRotate">> => Low3(res) = arg
    /\ ops = <<"rightRotate", "leftRotate">> => Low3(res) = arg

(***************************************************************************)
(* C7: with both masks at their defaults a RotateDown or RotateUp tick     *)
(* writes the 3-bit rotation of the sequence state held before the tick:   *)
(* from 0b100, 0b010 in RotateDown mode and 0b001 in RotateUp mode.        *)
(***************************************************************************)
C7_DefaultMasksWriteRotation ==
    (Ticked /\ lastTick.on = Lit3(0, 0, 0) /\ lastTick.off = Lit3(1, 1, 1)) =>
        /\ lastTick.func = "RotateDown" => LightsPattern = Rot3Down(Low3(lastTick.before))
        /\ lastTick.func = "RotateUp" => LightsPattern = Rot3Up(Low3(lastTick.before))

(***************************************************************************)
(* C8: on every tick, in each rotation mode, the pattern written to the    *)
(* lights is (next | forceOnMask) & forceOffMask for the newly stepped     *)
(* pattern next; with the green bit of forceOffMask cleared green is 0.    *)
(***************************************************************************)
C8_WrittenIsMasked ==
    Ticked =>
        /\ lastTick.next = IF lastTick.func = "RotateNone" THEN flash_step
                           ELSE Sequence_Stage
        /\ LightsPattern = Low3((lastTick.next \cup BIAS_ON_MASK) \cap BIAS_OFF_MASK)
        /\ 0 \notin BIAS_OFF_MASK => gpio[greenLight] = 0

\* the stepped pattern has green set and forceOffMask has green cleared
C8_Witness ==
    /\ Ticked
    /\ 0 \in lastTick.next
    /\ 0 \notin BIAS_OFF_MASK
    /\ gpio[greenLight] = 0

(***************************************************************************)
(* C9: two consecutive Flash ticks return the 3-bit flash pattern to what  *)
(* it was; from 0b111 one Flash tick yields 0b000.                         *)
(***************************************************************************)
C9_FlashInvolution ==
    /\ Len(flashHist) = 2 => Low3(flash_step) = Low3(flashHist[1])
    /\ (Len(flashHist) >= 1 /\ Low3(flashHist[Len(flashHist)]) = Lit3(1, 1, 1))
           => Low3(flash_step) = Lit3(0, 0, 0)

C9_Witness ==
    /\ Len(flashHist) = 2
    /\ Low3(flashHist[1]) = Lit3(1, 1, 1)
    /\ Low3(flashHist[2]) = Lit3(0, 0, 0)
    /\ Low3(flash_step) = Lit3(1, 1, 1)

(***************************************************************************)
(* C10: activating the random mode switch (level 1 on modeRand).           *)
(***************************************************************************)
RandActivation ==
    \/ ModeEvent(modeRand, 1)
    \/ Setup /\ modeHist' = << <<modeRand, 1>> >>

\* C10 as stated: the armed interval and step function after the event equal
\* those armed before it, and neither speed nor rotation is set
C10_RandLeavesTimer ==
    [][RandActivation => /\ timer0' = timer0
                         /\ _speed' = _speed
                         /\ _rotation' = _rotation]_vars

\* C10 amended: the event sets neither speed nor rotation and leaves timer 0
\* armed with them; that is the timer armed before whenever one was armed
C10_RandRearmsRetained ==
    [][RandActivation => /\ _speed' = _speed
                         /\ _rotation' = _rotation
                         /\ timer0' = [func |-> _directionFunction[_rotation + 1],
                                       millis |-> _speed]
                         /\ timer0.func # NULL => timer0' = timer0]_vars

\* a random activation has been handled while a timer was armed with a mode
\* other than the initial one
C10_Witness ==
    /\ Len(modeHist) = 2
    /\ PrevMode = <<modeUpFast, 1>>
    /\ LastMode = <<modeRand, 1>>
    /\ timer0 = [func |-> "RotateUp", millis |-> 1000]

(***************************************************************************)
(* C11: a bias-switch callback with level 2 (watchdog, no change) leaves   *)
(* both masks, the sequence state, the flash step, timer 0 and the light   *)
(* outputs unchanged, in updateOnBias and in updateOffBias alike.          *)
(***************************************************************************)
BiasWatchdog ==
    \/ \E pin \in Range(OnBias) : OnBiasEvent(pin, FALSE)
    \/ \E pin \in Range(OffBias) : OffBiasEvent(pin, FALSE)

C11_BiasWatchdogIsNoOp ==
    [][BiasWatchdog => /\ BIAS_ON_MASK' = BIAS_ON_MASK
                       /\ BIAS_OFF_MASK' = BIAS_OFF_MASK
                       /\ Sequence_Stage' = Sequence_Stage
                       /\ flash_step' = flash_step
                       /\ timer0' = timer0
                       /\ gpio' = gpio]_vars

\* three callbacks after a setup() that armed the timer: no mode callback (the
\* history holds setup's call alone), one bias edge (one switch closed), a tick
\* (only a tick lights a lamp) that was not the last one; the third is a bias
\* callback with level 2
C11_Witness ==
    /\ nEvents = 3
    /\ Len(modeHist) = 1
    /\ Cardinality({p \in BiasPins : gpio[p] = 1}) = 1
    /\ LightsPattern # {}
    /\ lastTick = NoTick
    /\ timer0.func # NULL

(***************************************************************************)
(* C12: setup() makes at most one synthetic call of updateTimerMode: it    *)
(* is for the first pin, in the order of the table Modes, that the scan    *)
(* reads high, with level 1, and the pins after it are not looked at; if   *)
(* no mode pin reads high, setup() calls nothing and arms no timer.        *)
(***************************************************************************)
TableIndex(pin) == CHOOSE k \in 1..Len(Modes) : Modes[k] = pin
EarliestInTable(high) ==
    CHOOSE pin \in high : \A q \in high : TableIndex(pin) <= TableIndex(q)

C12_StartupActivatesFirstInTable ==
    scan.done =>
        IF scan.high = {}
        THEN modeHist = <<>> /\ timer0 = NoTimer
        ELSE /\ modeHist = << <<EarliestInTable(scan.high), 1>> >>
             /\ EarliestInTable(scan.high) \in NineModes
                    => timer0 = ModeTable(EarliestInTable(scan.high))

\* the scan found the second and the last pin of the table high, and more
C12_Witness ==
    /\ scan.done
    /\ {modeDownSlow, modeFlashFast} \subseteq scan.high
    /\ modeRand \notin scan.high
    /\ Cardinality(scan.high) >= 3
    /\ timer0 = [func |-> "RotateDown", millis |-> slowSpeed]

(***************************************************************************)
(* C13: with bias alerts running between the statements of a direction     *)
(* function, the pattern the function has written to the three lights when *)
(* it returns equals (next | BIAS_ON_MASK) & BIAS_OFF_MASK for a pair of   *)
(* mask values that the two masks held together at one instant of its run: *)
(* never an ON mask mixed with an OFF mask it never coexisted with, and    *)
(* never a light triple written in part.                                   *)
(***************************************************************************)
Returned == tpc = "idle" /\ snaps # {}
NextOfRun == IF timer0.func = "RotateNone" THEN flash_step ELSE Sequence_Stage

BitOf(x, i) == IF i \in x THEN 1 ELSE 0

C14_LightsFollowBitPositions ==
    ops # <<>> /\ ops[Len(ops)] = "updateLights" =>
        /\ gpio[redLight] = BitOf(arg, 2)
        /\ gpio[amberLight] = BitOf(arg, 1)
        /\ gpio[greenLight] = BitOf(arg, 0)

\* 0b11111101 after 0b00000010: amber goes out, red and green come on, bits 3-7 set
C14_Witness ==
    /\ Len(ops) = 2 /\ ops[2] = "updateLights"
    /\ arg = (0..7) \ {1}
    /\ gpio[redLight] = 1 /\ gpio[amberLight] = 0 /\ gpio[greenLight] = 1

(***************************************************************************)
(* C15: with RotateDown or RotateUp armed and the masks at their defaults, *)
(* three ticks in a row in the same direction bring the lamp pattern of    *)
(* the sequence state back to the one the three started from (the single   *)
(* lit lamp has gone once round red, amber, green).                        *)
(***************************************************************************)
C15_ThreeTicksReturn ==
    /\ Ticked
    /\ lastTick.func \in {"RotateDown", "RotateUp"}
    /\ lastTick.run = 3
    /\ lastTick.on = Lit3(0, 0, 0) /\ lastTick.off = Lit3(1, 1, 1)
    => Low3(Sequence_Stage) = Low3(lastTick.start)

(***************************************************************************)
(* C16: the dial turned from mode A to mode B gives level 0 on A's pin and *)
(* level 1 on B's pin; whichever of the two callbacks comes first, once    *)
(* both have run timer 0 is armed with B's speed and direction function.   *)
(***************************************************************************)
DialTurned(A, B) ==
    /\ Len(modeHist) = 2
    /\ {PrevMode, LastMode} = {<<A, 0>>, <<B, 1>>}

C16_DialTurnArmsNewMode ==
    \A A \in Range(Modes), B \in NineModes :
        A # B /\ DialTurned(A, B) => timer0 = ModeTable(B)

(***************************************************************************)
(* C17: the rotation position and the flash phase are independent: a tick  *)
(* of RotateNone leaves Sequence_Stage as it was, a tick of RotateDown or  *)
(* RotateUp leaves flash_step as it was and steps from the Sequence_Stage  *)
(* it finds, and a mode callback changes neither; so a rotate mode         *)
(* selected again after flash ticks goes on from the position held when    *)
(* rotation was last in force.                                             *)
(***************************************************************************)
C17_PositionAndPhaseIndependent ==
    [][/\ Tick /\ timer0.func = "RotateNone" => Sequence_Stage' = Sequence_Stage
       /\ Tick /\ timer0.func = "RotateDown" =>
              flash_step' = flash_step /\ Sequence_Stage' = rightRotate(Sequence_Stage)
       /\ Tick /\ timer0.func = "RotateUp" =>
              flash_step' = flash_step /\ Sequence_Stage' = leftRotate(Sequence_Stage)
       /\ (\E pin \in Range(Modes), level \in {0, 1, 2} : ModeEvent(pin, level)) =>
              flash_step' = flash_step /\ Sequence_Stage' = Sequence_Stage]_vars

\* a flash tick, then RotateDown selected and ticking from the initial position
C17_Witness ==
    /\ Ticked
    /\ lastTick.func = "RotateDown"
    /\ lastTick.before = Lit3(1, 0, 0)
    /\ flashHist # <<>>
    /\ flash_step = BitNot(Lit3(1, 1, 1))

(***************************************************************************)
(* C18: an edge (level 0 or 1) of a bias switch changes its own mask and   *)
(* nothing else of the program: the other mask, the sequence state, the    *)
(* flash step, timer 0 and the three light outputs stay as they were.  The *)
(* light outputs change in a timer tick only, so with no timer armed a     *)
(* changed bias never reaches the lights.                                  *)
(***************************************************************************)
LightsKept == \A p \in Range(Lights) : gpio'[p] = gpio[p]
RestKept ==
    /\ Sequence_Stage' = Sequence_Stage
    /\ flash_step' = flash_step
    /\ timer0' = timer0
    /\ LightsKept

C18_BiasEdgeChangesOwnMaskOnly ==
    [][/\ (\E pin \in Range(OnBias) : OnBiasEvent(pin, TRUE)) =>
              BIAS_OFF_MASK' = BIAS_OFF_MASK /\ RestKept
       /\ (\E pin \in Range(OffBias) : OffBiasEvent(pin, TRUE)) =>
              BIAS_ON_MASK' = BIAS_ON_MASK /\ RestKept
       /\ ~LightsKept => timer0.func # NULL /\ Ticked']_vars

\* no timer armed, an ON bias edge has set a bit of the mask, and the lamp of
\* that bit is dark
C18_Witness ==
    /\ timer0 = NoTimer
    /\ onRead # NeverRead
    /\ BIAS_ON_MASK = Lit3(0, 0, 1)
    /\ gpio[greenLight] = 0
    /\ lastTick = NoTick

====
